---- MODULE Spec2Model ----
(***************************************************************************)
(* A model of the open-addressed hash table of commons.h (gen_map) and of  *)
(* the part of the dynamic array it is built on.  The table is the struct  *)
(* map_##typenames: a dyn of entries {key, value, active}, active_count    *)
(* and the two function pointers hash and key_compare.  Every operator     *)
(* below follows the C function of the same name statement by statement;   *)
(* a while/for loop of the source is a RECURSIVE operator over the loop    *)
(* index.                                                                  *)
(***************************************************************************)
EXTENDS Integers, Sequences, FiniteSets, TLC

(***************************************************************************)
(* Bounds.  InitCap stands for the starting capacity the source passes to  *)
(* dyn_init_with_cap in map_init (97 there); the claims are stated for a   *)
(* capacity C, and the model runs them at a small C.  There is one more    *)
(* key than slots, so that a full table and an absent key exist together.  *)
(* Hash values range over 0..HashMax, which takes in the capacity itself,  *)
(* so that the modulo of the source does some work.                        *)
(***************************************************************************)
InitCap == 2

NKeys == 3

HashMax == 2

Keys == 1..NKeys

\* The code copies values and never inspects one: an old and a new value are
\* all that a behaviour can tell apart.
Values == {1, 2}

\* a function pointer is NULL or <<target>>
NULL == <<>>

\* The hash functions a caller may hand to map_init: every function of the
\* keys, up to renaming the keys.  The code uses a key only through hash(key)
\* and key_compare, so a behaviour under h is, with the keys renamed by a
\* permutation p, a behaviour under h composed with p; the non-decreasing
\* functions are one representative of each such class.
HashFns == {h \in [Keys -> 0..HashMax] : \A k \in Keys : k = NKeys \/ h[k] <= h[k + 1]}

\* map_entry_##typenames
map_entry(key, value, active) == [key |-> key, value |-> value, active |-> active]

\* an element of calloc'ed memory: all fields zero
zero_entry == map_entry(0, 0, FALSE)

\* dyn_init_with_cap: calloc(sizeof(T), cap), len 0
dyn_init_with_cap(cap) ==
    [buf |-> [i \in 0..(cap - 1) |-> zero_entry], len |-> 0, cap |-> cap]

\* num_equal_##typename: one == two
num_equal(one, two) == one = two

\* what the key comparison functions of the library compute, by name
apply_compare(name, one, two) ==
    CASE name = "num_equal" -> num_equal(one, two)
      [] OTHER -> FALSE

\* map_init
map_init_small(hash, key_compare) ==
    [entries |-> dyn_init_with_cap(InitCap - 1),
     active_count |-> 0,
     hash |-> hash,
     key_compare |-> key_compare]

map_init(hash, key_compare) ==
    [entries |-> dyn_init_with_cap(InitCap),
     active_count |-> 0,
     hash |-> hash,
     key_compare |-> key_compare]

\* self->hash(key) % self->entries.cap (self->hash is not NULL)
hash_index(self, key) == self.hash[1][key] % self.entries.cap

\* self->key_compare(a, b) (self->key_compare is not NULL)
key_compare(self, a, b) == apply_compare(self.key_compare[1], a, b)

\* index = (index + 1) % self->entries.cap
next_index_nowrap(index, cap) == IF index + 1 >= cap THEN index ELSE index + 1

next_index(index, cap) == (index + 1) % cap

\* the new_map of map_resize: a designated initialiser, the members it does
\* not name (hash, key_compare) are zero, that is NULL
resize_new_map(self) ==
    [entries |-> dyn_init_with_cap(self.entries.cap * 2 + 1),
     active_count |-> 0,
     hash |-> NULL,
     key_compare |-> NULL]

\* if (self->active_count >= self->entries.cap)
needs_resize_early(self) == self.active_count + 1 >= self.entries.cap

needs_resize(self) == self.active_count >= self.entries.cap

(***************************************************************************)
(* The probe loops.  The table does not change while a loop runs, so the   *)
(* loop's whole state is index: a while loop that has made cap iterations  *)
(* without leaving is back at the index it started from and never leaves   *)
(* ("hang").  A call through a NULL function pointer is "nullcall".        *)
(***************************************************************************)
RECURSIVE insert_probe(_, _, _, _)
\* map_insert: while (buf[index].active) { if (key_compare(...)) return false; index = ... }
insert_probe(self, key, index, n) ==
    IF ~self.entries.buf[index].active THEN [kind |-> "free", index |-> index]
    ELSE IF self.key_compare = NULL THEN [kind |-> "nullcall", index |-> index]
    ELSE IF key_compare(self, self.entries.buf[index].key, key)
         THEN [kind |-> "dup", index |-> index]
    ELSE IF n + 1 >= self.entries.cap THEN [kind |-> "hang", index |-> index]
    ELSE insert_probe(self, key, next_index(index, self.entries.cap), n + 1)

RECURSIVE find_probe(_, _, _, _)
\* map_update, map_remove: while (buf[index].active) { if (key_compare(...)) { found = true; break; } index = ... }
find_probe(self, key, index, n) ==
    IF ~self.entries.buf[index].active THEN [kind |-> "notfound", index |-> index]
    ELSE IF self.key_compare = NULL THEN [kind |-> "nullcall", index |-> index]
    ELSE IF key_compare(self, self.entries.buf[index].key, key)
         THEN [kind |-> "found", index |-> index]
    ELSE IF n + 1 >= self.entries.cap THEN [kind |-> "hang", index |-> index]
    ELSE find_probe(self, key, next_index(index, self.entries.cap), n + 1)

RECURSIVE get_probe(_, _, _, _)
\* map_get: for (i = 0; i < cap; i++) { if (!active) break; if (key_compare(...)) break; index = ... }
get_probe(self, key, index, i) ==
    IF ~(i < self.entries.cap) THEN [kind |-> "end", index |-> index]
    ELSE IF ~self.entries.buf[index].active THEN [kind |-> "end", index |-> index]
    ELSE IF self.key_compare = NULL THEN [kind |-> "nullcall", index |-> index]
    ELSE IF key_compare(self, self.entries.buf[index].key, key)
         THEN [kind |-> "end", index |-> index]
    ELSE get_probe(self, key, next_index(index, self.entries.cap), i + 1)

\* map_insert, once the free slot is found: active = true, key, value, active_count += 1
install_nocount(self, index, key, value) ==
    [self EXCEPT !.entries.buf[index] = map_entry(key, value, TRUE)]

install(self, index, key, value) ==
    [self EXCEPT !.entries.buf[index] = map_entry(key, value, TRUE),
                 !.active_count = @ + 1]

\* what a call gives back: how it ended, the table after it, the value returned
outcome(status, self, ret, value) ==
    [status |-> status, self |-> self, ret |-> ret, value |-> value]

RECURSIVE map_insert(_, _, _)
RECURSIVE map_resize(_)
RECURSIVE resize_loop(_, _, _)

\* map_resize: for (i = 0; i < self->entries.cap; i++) if (buf[i].active) map_insert(&new_map, ...)
resize_loop(self, new_map, i) ==
    IF ~(i < self.entries.cap) THEN outcome("ok", new_map, TRUE, 0)
    ELSE IF self.entries.buf[i].active
         THEN LET r == map_insert(new_map, self.entries.buf[i].key,
                                  self.entries.buf[i].value)
              IN  IF r.status = "ok" THEN resize_loop(self, r.self, i + 1)
                  ELSE outcome(r.status, self, FALSE, 0)
    ELSE resize_loop(self, new_map, i + 1)

\* map_resize: the loop, then map_deinit(self); *self = new_map
map_resize(self) == resize_loop(self, resize_new_map(self), 0)

\* map_insert
map_insert(self, key, value) ==
    LET r == IF needs_resize(self) THEN map_resize(self)
             ELSE outcome("ok", self, TRUE, 0)
        s == r.self
    IN  IF r.status # "ok" THEN outcome(r.status, self, FALSE, 0)
        ELSE IF s.hash = NULL THEN outcome("nullcall", self, FALSE, 0)
        ELSE LET p == insert_probe(s, key, hash_index(s, key), 0)
             IN  CASE p.kind = "dup" -> outcome("ok", s, FALSE, 0)
                   [] p.kind = "free" ->
                        outcome("ok", install(s, p.index, key, value), TRUE, 0)
                   [] OTHER -> outcome(p.kind, self, FALSE, 0)

\* map_get: the option returned is value |-> the entry, ret |-> .ok
map_get(self, key) ==
    IF self.hash = NULL THEN outcome("nullcall", self, FALSE, zero_entry)
    ELSE LET p == get_probe(self, key, hash_index(self, key), 0)
             e == self.entries.buf[p.index]
         IN  IF p.kind = "nullcall" THEN outcome("nullcall", self, FALSE, zero_entry)
             ELSE IF ~e.active THEN outcome("ok", self, FALSE, zero_entry)
             ELSE IF self.key_compare = NULL
                  THEN outcome("nullcall", self, FALSE, zero_entry)
             ELSE IF key_compare(self, e.key, key) THEN outcome("ok", self, TRUE, e)
             ELSE outcome("ok", self, FALSE, zero_entry)

\* map_update
map_update(self, key, value) ==
    IF self.hash = NULL THEN outcome("nullcall", self, FALSE, 0)
    ELSE LET p == find_probe(self, key, hash_index(self, key), 0)
         IN  CASE p.kind = "notfound" -> outcome("ok", self, FALSE, 0)
               [] p.kind = "found" ->
                    outcome("ok", [self EXCEPT !.entries.buf[p.index].value = value],
                            TRUE, 0)
               [] OTHER -> outcome(p.kind, self, FALSE, 0)

\* a removal that forgets the count
map_remove_nocount(self, key) ==
    IF self.hash = NULL THEN outcome("nullcall", self, FALSE, 0)
    ELSE LET p == find_probe(self, key, hash_index(self, key), 0)
         IN  CASE p.kind = "notfound" -> outcome("ok", self, FALSE, 0)
               [] p.kind = "found" ->
                    outcome("ok", [self EXCEPT !.entries.buf[p.index].active = FALSE],
                            TRUE, 0)
               [] OTHER -> outcome(p.kind, self, FALSE, 0)

\* map_remove
map_remove(self, key) ==
    IF self.hash = NULL THEN outcome("nullcall", self, FALSE, 0)
    ELSE LET p == find_probe(self, key, hash_index(self, key), 0)
         IN  CASE p.kind = "notfound" -> outcome("ok", self, FALSE, 0)
               [] p.kind = "found" ->
                    outcome("ok",
                            [self EXCEPT !.entries.buf[p.index].active = FALSE,
                                         !.active_count = @ - 1],
                            TRUE, 0)
               [] OTHER -> outcome(p.kind, self, FALSE, 0)

(***************************************************************************)
(* The state: the table, how the program stands, and history.              *)
(*   map     the map_##typenames struct of the caller                      *)
(*   status  "ok" while the program runs; "hang" once a call loops for     *)
(*           ever; "segv" or "trap" once a call went through a NULL        *)
(*           function pointer (undefined behaviour: the build decides      *)
(*           which: a call to address 0, or the trap a compiler puts in    *)
(*           its place).  A program that hangs or faults makes no more     *)
(*           calls, and *self is as the failed call found it.              *)
(*   dict    per key, the value of its last successful map_insert or       *)
(*           map_update, 0 if there was none or a successful map_remove    *)
(*           came after it                                                 *)
(*   fresh   TRUE while every mutating call so far was a map_insert, the   *)
(*           keys were pairwise distinct and at most InitCap in number     *)
(***************************************************************************)
VARIABLES map, status, dict, fresh

vars == <<map, status, dict, fresh>>

\* the outcomes of a call through a NULL function pointer
NullCallOutcomes == {"segv", "trap"}

DictKeys == {k \in Keys : dict[k] # 0}

(***************************************************************************)
(* The other parts of the library have their own state and their own       *)
(* specifications, further down.  A program that only uses the table       *)
(* leaves that state alone, and the other way round.                       *)
(*   dyn    a dyn_##typename struct and the memory block it owns           *)
(*   clone  the clone of dyn the program holds, if any                     *)
(*   mem    "ok", or what an access outside the block has done             *)
(*   hist   history of the calls made on dyn                               *)
(*   str    a string struct and the memory block it owns                   *)
(*   io     the arguments and the result of a call of a pure function      *)
(***************************************************************************)
VARIABLES dyn, clone, mem, hist, str, io

others == <<dyn, clone, mem, hist, str, io>>

OthersIdle ==
    /\ dyn = "idle" /\ clone = "idle" /\ mem = "idle" /\ hist = "idle"
    /\ str = "idle" /\ io = "idle"

MapIdle == map = "idle" /\ status = "idle" /\ dict = "idle" /\ fresh = "idle"

Init ==
    /\ \E h \in HashFns : map = map_init(<<h>>, <<"num_equal">>)
    /\ status = "ok"
    /\ dict = [k \in Keys |-> 0]
    /\ fresh = TRUE
    /\ OthersIdle

\* the end of a call whose outcome is r: it returned, it loops, or it faulted
Finish(r) ==
    /\ map' = r.self
    /\ IF r.status = "nullcall" THEN status' \in NullCallOutcomes
       ELSE status' = r.status

\* r.status = "ok" and r.ret: the call came back with true
Succeeded(r) == r.status = "ok" /\ r.ret

MapInsert(key, value) ==
    /\ status = "ok"
    /\ LET r == map_insert(map, key, value)
       IN  /\ Finish(r)
           /\ dict' = IF Succeeded(r) THEN [dict EXCEPT ![key] = value] ELSE dict
    /\ fresh' = (fresh /\ dict[key] = 0 /\ Cardinality(DictKeys) < InitCap)
    /\ UNCHANGED others

MapGet(key) ==
    /\ status = "ok"
    /\ Finish(map_get(map, key))
    /\ UNCHANGED <<dict, fresh>>
    /\ UNCHANGED others

MapUpdate(key, value) ==
    /\ status = "ok"
    /\ LET r == map_update(map, key, value)
       IN  /\ Finish(r)
           /\ dict' = IF Succeeded(r) THEN [dict EXCEPT ![key] = value] ELSE dict
    /\ fresh' = FALSE
    /\ UNCHANGED others

MapRemove(key) ==
    /\ status = "ok"
    /\ LET r == map_remove(map, key)
       IN  /\ Finish(r)
           /\ dict' = IF Succeeded(r) THEN [dict EXCEPT ![key] = 0] ELSE dict
    /\ fresh' = FALSE
    /\ UNCHANGED others

Next ==
    \/ \E key \in Keys, value \in Values : MapInsert(key, value)
    \/ \E key \in Keys : MapGet(key)
    \/ \E key \in Keys, value \in Values : MapUpdate(key, value)
    \/ \E key \in Keys : MapRemove(key)

Spec == Init /\ [][Next]_<<vars, others>>

(***************************************************************************)
(* What the claims speak of.                                               *)
(***************************************************************************)
Slots(self) == 0..(self.entries.cap - 1)

ActiveSlots(self) == {i \in Slots(self) : self.entries.buf[i].active}

\* the slots that hold, active, a key equal to key
SlotsOf(self, key) ==
    {i \in ActiveSlots(self) : key_compare(self, self.entries.buf[i].key, key)}

\* map_get finds key and gives value
Retrieves(self, key, value) ==
    LET g == map_get(self, key)
    IN  g.status = "ok" /\ g.ret /\ g.value.active
        /\ key_compare(self, g.value.key, key) /\ g.value.value = value

\* the slots of the linear probe from the home slot of the key in slot i up to i
ProbePath(self, i) ==
    LET home == hash_index(self, self.entries.buf[i].key)
        dist == (i - home + self.entries.cap) % self.entries.cap
    IN  {(home + j) % self.entries.cap : j \in 0..dist}

\* a slot a removal left behind: inactive, its key still in place
StaleSlots(self) == {i \in Slots(self) : ~self.entries.buf[i].active
                                         /\ self.entries.buf[i].key # 0}

(***************************************************************************)
(* C1.  From a fresh table, inserts of pairwise distinct keys, at most     *)
(* InitCap of them and no other mutating call in between: every insert     *)
(* returns true, map_get of each inserted key gives the value inserted     *)
(* for it, and active_count is the number of inserts; under every hash     *)
(* function, colliding and wrapping ones included.                         *)
(***************************************************************************)
C1_InsertThenGet ==
    fresh =>
        /\ status = "ok"
        /\ map.active_count = Cardinality(DictKeys)
        /\ \A k \in DictKeys : Retrieves(map, k, dict[k])
        /\ Cardinality(DictKeys) < InitCap =>
              \A k \in Keys \ DictKeys, v \in Values :
                  Succeeded(map_insert(map, k, v))

\* InitCap distinct keys are in, one of them pushed by a collision past the end
\* of the array to a slot below its home slot
C1_Witness ==
    /\ fresh
    /\ Cardinality(DictKeys) = InitCap
    /\ \E i \in ActiveSlots(map) : i < hash_index(map, map.entries.buf[i].key)

(***************************************************************************)
(* C2 (as claimed).  In every reachable state, map_insert with a key       *)
(* equal to the key of an active entry returns false and leaves            *)
(* active_count and that entry's value unchanged.  Stated for the calls    *)
(* that return: the calls on a full table, which do not (C6), are left     *)
(* out.                                                                    *)
(***************************************************************************)
C2_DuplicateRejected ==
    status = "ok" =>
        \A k \in Keys, v \in Values :
            LET r == map_insert(map, k, v)
            IN  (SlotsOf(map, k) # {} /\ r.status = "ok") =>
                    /\ ~r.ret
                    /\ r.self.active_count = map.active_count
                    /\ \A i \in SlotsOf(map, k) :
                           r.self.entries.buf[i] = map.entries.buf[i]

(***************************************************************************)
(* C3 (as claimed).  In every reachable state every active entry is        *)
(* reachable by probing: every slot from the home slot of its key up to    *)
(* its own slot is active, and map_get of its key returns ok=true.         *)
(***************************************************************************)
C3_ProbeReachesEveryEntry ==
    status = "ok" =>
        \A i \in ActiveSlots(map) :
            /\ ProbePath(map, i) \subseteq ActiveSlots(map)
            /\ Succeeded(map_get(map, map.entries.buf[i].key))

(***************************************************************************)
(* C4 (as claimed).  In every reachable state no two active slots hold     *)
(* keys that are equal under key_compare.                                  *)
(***************************************************************************)
C4_OneSlotPerKey ==
    \A i \in ActiveSlots(map), j \in ActiveSlots(map) :
        key_compare(map, map.entries.buf[i].key, map.entries.buf[j].key) => i = j

(***************************************************************************)
(* C5 (as claimed).  On a fresh table, after InitCap-1 inserts of distinct *)
(* keys the capacity is still InitCap and the keys are retrievable; once   *)
(* the InitCap-th distinct key is in, the capacity is 2*InitCap+1 and all  *)
(* InitCap keys retrieve their values.                                     *)
(***************************************************************************)
C5_GrowthOnReachingCapacity ==
    (fresh /\ status = "ok") =>
        /\ Cardinality(DictKeys) = InitCap - 1 =>
              /\ map.entries.cap = InitCap
              /\ \A k \in DictKeys : Retrieves(map, k, dict[k])
        /\ Cardinality(DictKeys) = InitCap =>
              /\ map.entries.cap = 2 * InitCap + 1
              /\ \A k \in DictKeys : Retrieves(map, k, dict[k])

(***************************************************************************)
(* C5 (amended).  On a fresh table, after InitCap-1 and also after InitCap *)
(* inserts of distinct keys the capacity is still InitCap and every key    *)
(* retrieves its value: the insert that brings active_count up to the      *)
(* capacity does not grow the table.  map_insert tests active_count >=     *)
(* capacity on entry, so growth is asked for by the next insert, the one   *)
(* called on the full table, and by no earlier one.                        *)
(***************************************************************************)
C5_GrowthAskedOnFullTable ==
    (fresh /\ status = "ok") =>
        /\ map.entries.cap = InitCap
        /\ \A k \in DictKeys : Retrieves(map, k, dict[k])
        /\ needs_resize(map) <=> Cardinality(DictKeys) = InitCap

\* the InitCap-th distinct key is in: the table is full, at its first capacity
C5_Witness ==
    /\ fresh /\ status = "ok"
    /\ Cardinality(DictKeys) = InitCap
    /\ map.active_count = map.entries.cap
    /\ map.entries.cap = InitCap

(***************************************************************************)
(* C6 (as claimed).  Whenever map_insert is called with active_count >=    *)
(* capacity, the rehash completes without fault, the capacity becomes      *)
(* 2*old+1, the table still carries the hash and key_compare given to      *)
(* map_init, and every key active before the call is retrievable with its  *)
(* value unchanged.                                                        *)
(***************************************************************************)
C6_RehashKeepsTable ==
    (status = "ok" /\ map.active_count >= map.entries.cap) =>
        \A k \in Keys, v \in Values :
            LET r == map_insert(map, k, v)
            IN  /\ r.status = "ok"
                /\ r.self.entries.cap = 2 * map.entries.cap + 1
                /\ r.self.hash = map.hash /\ r.self.hash # NULL
                /\ r.self.key_compare = map.key_compare
                /\ \A i \in ActiveSlots(map) :
                       Retrieves(r.self, map.entries.buf[i].key,
                                 map.entries.buf[i].value)

(***************************************************************************)
(* C7 (as claimed).  Every call of map_insert, map_get, map_update and     *)
(* map_remove terminates, in every reachable state and for every key, in   *)
(* particular on a full table for a key that is not in it.                 *)
(***************************************************************************)
C7_EveryCallTerminates ==
    /\ status # "hang"
    /\ status = "ok" =>
          \A k \in Keys, v \in Values :
              /\ map_insert(map, k, v).status # "hang"
              /\ map_get(map, k).status # "hang"
              /\ map_update(map, k, v).status # "hang"
              /\ map_remove(map, k).status # "hang"

(***************************************************************************)
(* C8.  Whenever map_remove(k) returns true, exactly one slot changed, an  *)
(* active slot with a key equal to k that became inactive; no other slot   *)
(* changed, the capacity is unchanged, active_count went down by exactly   *)
(* 1, and map_get(k) right after returns ok=false.  Whenever it returns    *)
(* false the table is unchanged.                                           *)
(***************************************************************************)
C8_RemoveFrame ==
    status = "ok" =>
        \A k \in Keys :
            LET r == map_remove(map, k)
                g == map_get(r.self, k)
            IN  r.status = "ok" =>
                    IF r.ret
                    THEN /\ \E i \in SlotsOf(map, k) :
                               /\ ~r.self.entries.buf[i].active
                               /\ \A j \in Slots(map) \ {i} :
                                      r.self.entries.buf[j] = map.entries.buf[j]
                         /\ Slots(r.self) = Slots(map)
                         /\ r.self.entries.cap = map.entries.cap
                         /\ r.self.entries.len = map.entries.len
                         /\ r.self.hash = map.hash
                         /\ r.self.key_compare = map.key_compare
                         /\ r.self.active_count = map.active_count - 1
                         /\ g.status = "ok" /\ ~g.ret
                    ELSE r.self = map

\* a removal has happened (it left a stale slot) beside an entry still active,
\* and a further removal of a present key is possible
C8_Witness ==
    /\ status = "ok"
    /\ StaleSlots(map) # {}
    /\ \E k \in Keys : Succeeded(map_remove(map, k))

(***************************************************************************)
(* C9 (as claimed).  map_update never creates an entry: for a key that was *)
(* never inserted it returns false and leaves every slot, active_count and *)
(* the capacity unchanged; when it returns true the only change is the     *)
(* value of one active slot whose key equals the key given, and map_get of *)
(* that key then gives the new value.  A key that was never inserted: in a *)
(* run of inserts only (fresh), a key that is not among them.              *)
(***************************************************************************)
C9_UpdateNeverCreates ==
    status = "ok" =>
        \A k \in Keys, v \in Values :
            LET r == map_update(map, k, v)
            IN  /\ (fresh /\ dict[k] = 0) =>
                       (r.status = "ok" /\ ~r.ret /\ r.self = map)
                /\ Succeeded(r) =>
                       /\ \E i \in SlotsOf(map, k) :
                              r.self = [map EXCEPT !.entries.buf[i].value = v]
                       /\ Retrieves(r.self, k, v)

(***************************************************************************)
(* C10.  In every reachable state active_count is the number of slots of   *)
(* the backing array whose active flag is true, and active_count <=        *)
(* capacity.                                                               *)
(***************************************************************************)
C10_ActiveCount ==
    /\ map.active_count = Cardinality(ActiveSlots(map))
    /\ map.active_count <= map.entries.cap

\* inserts and a removal have both counted: a stale slot, and entries still active
C10_Witness ==
    /\ StaleSlots(map) # {}
    /\ map.active_count >= 1
    /\ map.active_count < map.entries.cap

(***************************************************************************)
(* C11.  For a live table the capacity of the backing array is at least    *)
(* the starting capacity (97 in the source, InitCap here) in every         *)
(* reachable state, and no operation that returns leaves it smaller than   *)
(* it found it.                                                            *)
(***************************************************************************)
C11_CapacityNeverShrinks ==
    /\ map.entries.cap >= InitCap
    /\ status = "ok" =>
          \A k \in Keys, v \in Values :
              /\ map_insert(map, k, v).self.entries.cap >= map.entries.cap
              /\ map_update(map, k, v).self.entries.cap >= map.entries.cap
              /\ map_remove(map, k).self.entries.cap >= map.entries.cap
              /\ map_get(map, k).self.entries.cap >= map.entries.cap

\* the table has been filled to its capacity, emptied again and refilled in part
C11_Witness ==
    /\ status = "ok"
    /\ ~fresh
    /\ StaleSlots(map) # {}
    /\ ActiveSlots(map) # {}
    /\ map.entries.cap >= InitCap

(***************************************************************************)
(* The dynamic array, gen_dyn(T, typename).                                *)
(*                                                                         *)
(* A dyn record is the struct {buf, len, cap} together with the block buf  *)
(* points to and the size of T:                                            *)
(*   esize  sizeof(T)                                                      *)
(*   alloc  the size of the block in bytes, as calloc, malloc or realloc   *)
(*          were asked for it                                              *)
(*   buf    the elements that lie whole inside the block, in order; the    *)
(*          C expression buf[i] is buf[i + 1] here                         *)
(* Every dyn owns its block (dyn_clone mallocs a new one), so two records  *)
(* never share elements.  Undef is an indeterminate value: memory that     *)
(* malloc or realloc handed out and the program has not written.  An       *)
(* access to an element that is not whole inside the block is undefined    *)
(* behaviour; the operators report it ("oob") and carry on as a run does   *)
(* in which the access did not fault: a store outside the block is lost    *)
(* to the array, a load from outside gives Undef.                          *)
(*                                                                         *)
(* Bounds.  DefaultCap stands for the capacity dyn_init starts with (32    *)
(* in the source); dyn_init_with_cap is called with 0..MaxCap; sizeof(T)   *)
(* is 1..MaxElemSize; a run pushes while len < MaxLen; size_t is SizeBits  *)
(* wide.                                                                   *)
(***************************************************************************)
DefaultCap == 2

MaxCap == 3

MaxElemSize == 2

MaxLen == 4

SizeBits == 16

SizeMod == 2 ^ SizeBits

\* The code copies elements and never inspects one.
Elems == {1, 2}

Undef == -1

\* a - b in a signed type as wide as it needs
size_sub_signed(a, b) == a - b

\* size_t arithmetic
size_sub(a, b) == (a - b + SizeMod) % SizeMod

size_add(a, b) == (a + b) % SizeMod

size_mul(a, b) == (a * b) % SizeMod

\* the number of elements that lie whole inside the block
Whole(self) == self.alloc \div self.esize

\* buf[i] lies inside the block
InBlock(self, i) == i >= 0 /\ i < Whole(self)

\* self->buf[i] = v
store(self, i, v) == IF InBlock(self, i) THEN [self EXCEPT !.buf[i + 1] = v] ELSE self

\* self->buf[i]
load(self, i) == IF InBlock(self, i) THEN self.buf[i + 1] ELSE Undef

\* dyn_init_with_cap_##typename: calloc(sizeof(T), cap), zeroed
dyn_init_with_cap_T(esize, cap) ==
    [esize |-> esize, alloc |-> esize * cap,
     buf |-> [i \in 1..cap |-> 0], len |-> 0, cap |-> cap]

\* dyn_init_##typename: the same with cap = 32
dyn_init(esize) == dyn_init_with_cap_T(esize, DefaultCap)

\* realloc(self->buf, bytes): the old bytes up to the smaller of the two sizes
\* are kept, what is new is indeterminate
realloc(self, bytes) ==
    LET whole == bytes \div self.esize
        kept == IF whole < Whole(self) THEN whole ELSE Whole(self)
    IN  [self EXCEPT !.alloc = bytes,
                     !.buf = SubSeq(self.buf, 1, kept)
                                 \o [i \in 1..(whole - kept) |-> Undef]]

\* dyn_resize: self->cap *= 2; self->buf = realloc(self->buf, self->cap)
dyn_resize(self) ==
    LET cap == size_mul(self.cap, 2)
    IN  realloc([self EXCEPT !.cap = cap], cap)

\* what a call on a dyn gives back: the struct after it, .ok (or .err ==
\* ERR_NONE), .value, and whether it went outside the block
dres(self, ok, value, oob) == [self |-> self, ok |-> ok, value |-> value, oob |-> oob]

\* dyn_at
dyn_at(self, index) ==
    IF index >= self.len THEN dres(self, FALSE, 0, FALSE)
    ELSE dres(self, TRUE, load(self, index), ~InBlock(self, index))

\* dyn_push
dyn_push(self, elem) ==
    LET s == IF size_add(self.len, 1) >= self.cap THEN dyn_resize(self) ELSE self
    IN  dres([store(s, s.len, elem) EXCEPT !.len = size_add(s.len, 1)],
             TRUE, 0, ~InBlock(s, s.len))

\* dyn_pop
dyn_pop(self) ==
    LET elem == dyn_at(self, size_sub(self.len, 1))
    IN  IF elem.ok
        THEN dres([self EXCEPT !.len = size_sub(self.len, 1)], TRUE, elem.value, elem.oob)
        ELSE elem

RECURSIVE remove_loop(_, _, _)
\* dyn_remove: for (; index + 1 < self->len; index++) buf[index - 1] = buf[index];
remove_loop(self, index, oob) ==
    IF size_add(index, 1) < self.len
    THEN remove_loop(store(self, size_sub(index, 1), load(self, index)),
                     size_add(index, 1),
                     oob \/ ~InBlock(self, size_sub(index, 1)) \/ ~InBlock(self, index))
    ELSE dres(self, TRUE, 0, oob)

\* dyn_remove
dyn_remove(self, index) ==
    LET elem == dyn_at(self, index)
    IN  IF ~elem.ok THEN elem
        ELSE LET l == remove_loop(self, index, elem.oob)
             IN  dres([l.self EXCEPT !.len = size_sub(self.len, 1)],
                      TRUE, elem.value, l.oob)

\* dyn_replace: ok is .err == ERR_NONE
dyn_replace(self, index, elem) ==
    IF index >= self.len THEN dres(self, FALSE, 0, FALSE)
    ELSE dres(store(self, index, elem), TRUE, 0, ~InBlock(self, index))

\* dyn_clear
dyn_clear(self) == dres([self EXCEPT !.len = 0], TRUE, 0, FALSE)

\* memcpy(dst, src, n): element i of dst is that of src if all its bytes are
\* among the first n, and is left as it was otherwise
memcpy(dst, src, n) ==
    [dst EXCEPT !.buf = [i \in DOMAIN dst.buf |->
                            IF i * dst.esize <= n /\ InBlock(src, i - 1)
                            THEN src.buf[i] ELSE dst.buf[i]]]

\* dyn_clone: malloc(sizeof(T) * cap); memcpy(buf, self->buf, self->len)
dyn_clone(self) ==
    LET fresh_block == [esize |-> self.esize, alloc |-> self.esize * self.cap,
                        buf |-> [i \in 1..self.cap |-> Undef],
                        len |-> self.len, cap |-> self.cap]
    IN  dres(memcpy(fresh_block, self, self.len), TRUE, 0, self.len > self.alloc)

(***************************************************************************)
(* A program that works on one dynamic array.                              *)
(*   dyn    the array                                                      *)
(*   clone  <<>>, or <<c>> with c the clone the program holds              *)
(*   mem    "ok"; "corrupt" once an access outside the block has gone      *)
(*          through without a fault; "segv" once one has faulted, which    *)
(*          ends the run                                                   *)
(*   hist   what the calls so far amount to: abs is the sequence of       *)
(*          elements the array should hold, phase is "push" while every    *)
(*          call was a push, "pop" while pops have followed those pushes   *)
(*          and nothing else, "mixed" afterwards                           *)
(***************************************************************************)
OobOutcomes == {"segv", "corrupt"}

Indices == 0..MaxLen \cup {SizeMod - 1}

\* the live elements, in order
Live(self) == [i \in 1..self.len |-> load(self, i - 1)]

\* s without its element at index i (from 0)
Without(s, i) == [j \in 1..(Len(s) - 1) |-> IF j <= i THEN s[j] ELSE s[j + 1]]

Running == mem \in {"ok", "corrupt"}

InitDyn ==
    /\ MapIdle
    /\ dyn \in {dyn_init(esize) : esize \in 1..MaxElemSize}
               \cup {dyn_init_with_cap_T(esize, cap) :
                         esize \in 1..MaxElemSize, cap \in 0..MaxCap}
    /\ clone = <<>>
    /\ mem = "ok"
    /\ hist = [phase |-> "push", abs |-> <<>>]
    /\ str = "idle"
    /\ io = "idle"

\* the call that gave r has been made on dyn
DynDone(r) ==
    IF r.oob
    THEN \E m \in OobOutcomes :
             /\ mem' = m
             /\ dyn' = IF m = "segv" THEN dyn ELSE r.self
    ELSE mem' = mem /\ dyn' = r.self

DynPush(elem) ==
    /\ Running /\ clone = <<>> /\ dyn.len < MaxLen
    /\ DynDone(dyn_push(dyn, elem))
    /\ hist' = [phase |-> IF hist.phase = "push" THEN "push" ELSE "mixed",
                abs |-> Append(hist.abs, elem)]
    /\ UNCHANGED <<clone, str, io, vars>>

DynPop ==
    /\ Running /\ clone = <<>>
    /\ DynDone(dyn_pop(dyn))
    /\ hist' = [phase |-> IF hist.phase \in {"push", "pop"} THEN "pop" ELSE "mixed",
                abs |-> IF hist.abs = <<>> THEN <<>>
                        ELSE SubSeq(hist.abs, 1, Len(hist.abs) - 1)]
    /\ UNCHANGED <<clone, str, io, vars>>

DynAt(index) ==
    /\ Running /\ clone = <<>>
    /\ DynDone(dyn_at(dyn, index))
    /\ UNCHANGED <<hist, clone, str, io, vars>>

DynRemove(index) ==
    /\ Running /\ clone = <<>>
    /\ DynDone(dyn_remove(dyn, index))
    /\ hist' = [phase |-> "mixed",
                abs |-> IF index < Len(hist.abs) THEN Without(hist.abs, index)
                        ELSE hist.abs]
    /\ UNCHANGED <<clone, str, io, vars>>

DynReplace(index, elem) ==
    /\ Running /\ clone = <<>>
    /\ DynDone(dyn_replace(dyn, index, elem))
    /\ hist' = [phase |-> "mixed",
                abs |-> IF index < Len(hist.abs)
                        THEN [hist.abs EXCEPT ![index + 1] = elem]
                        ELSE hist.abs]
    /\ UNCHANGED <<clone, str, io, vars>>

DynClear ==
    /\ Running /\ clone = <<>>
    /\ DynDone(dyn_clear(dyn))
    /\ hist' = [phase |-> "mixed", abs |-> <<>>]
    /\ UNCHANGED <<clone, str, io, vars>>

\* c = dyn_clone(&dyn)
DynClone ==
    /\ Running /\ clone = <<>>
    /\ LET r == dyn_clone(dyn)
       IN  IF r.oob
           THEN \E m \in OobOutcomes :
                    /\ mem' = m
                    /\ clone' = IF m = "segv" THEN <<>> ELSE <<r.self>>
           ELSE mem' = mem /\ clone' = <<r.self>>
    /\ UNCHANGED <<dyn, hist, str, io, vars>>

\* dyn_deinit(&c)
DynDeinit ==
    /\ Running /\ clone # <<>>
    /\ clone' = <<>>
    /\ UNCHANGED <<dyn, mem, hist, str, io, vars>>

NextDyn ==
    \/ \E elem \in Elems : DynPush(elem)
    \/ DynPop
    \/ \E index \in Indices : DynAt(index)
    \/ \E index \in Indices : DynRemove(index)
    \/ \E index \in Indices, elem \in Elems : DynReplace(index, elem)
    \/ DynClear
    \/ DynClone
    \/ DynDeinit

SpecDyn == InitDyn /\ [][NextDyn]_<<vars, others>>

(***************************************************************************)
(* Claims about the dynamic array.                                         *)
(***************************************************************************)
\* the push of elem on self makes the array grow
TriggersGrowth(self) == size_add(self.len, 1) >= self.cap

\* C12: a dyn_push that triggers growth keeps the contents, whatever the size
\* of an element: no access leaves the block, the capacity is doubled, the
\* block has room for capacity elements, dyn_at(i) gives what it gave before
\* for every i below the old length, and dyn_at(old length) gives the pushed
\* element.  (Stated for capacities of at least 1; capacity 0 is C16's case.)
C12_GrowthKeepsContents ==
    (mem = "ok" /\ dyn.cap >= 1 /\ TriggersGrowth(dyn)) =>
        \A elem \in Elems :
            LET r == dyn_push(dyn, elem)
            IN  /\ ~r.oob
                /\ r.self.cap = 2 * dyn.cap
                /\ r.self.alloc >= r.self.cap * r.self.esize
                /\ \A i \in 0..(dyn.len - 1) :
                       dyn_at(r.self, i) = dres(r.self, TRUE, load(dyn, i), FALSE)
                /\ dyn_at(r.self, dyn.len) = dres(r.self, TRUE, elem, FALSE)

\* C13: n pushes followed by n pops give ok=true and the n values in reverse
\* order, leave length 0, and one more pop gives ok=false: while a run has only
\* pushed and then only popped, nothing has gone outside the block, the length
\* is the number of pushed elements not yet popped, and the next pop gives the
\* last of them, or ok=false when there is none.  (Capacities of at least 1.)
C13_PushThenPopReverses ==
    (hist.phase \in {"push", "pop"} /\ dyn.cap >= 1) =>
        /\ mem = "ok"
        /\ dyn.len = Len(hist.abs)
        /\ LET r == dyn_pop(dyn)
           IN  IF hist.abs = <<>>
               THEN ~r.ok /\ r.self = dyn
               ELSE /\ r.ok /\ ~r.oob
                    /\ r.value = hist.abs[Len(hist.abs)]
                    /\ r.self.len = dyn.len - 1

\* C14: for every index < length, dyn_remove(index) gives ok=true and the
\* element that was at index, stays inside the block, and leaves the live
\* elements as they were with that one deleted, the length one less.
C14_RemoveDeletesOne ==
    mem = "ok" =>
        \A index \in 0..(dyn.len - 1) :
            LET r == dyn_remove(dyn, index)
            IN  /\ r.ok /\ ~r.oob
                /\ r.value = load(dyn, index)
                /\ r.self.len = dyn.len - 1
                /\ Live(r.self) = Without(Live(dyn), index)

\* C15: the clone has the length and the capacity of the original and
\* dyn_at(i) on the clone is dyn_at(i) on the original for every i < length,
\* whatever the size of an element.  (The clone's block is a new one, so what
\* is done to the clone later cannot reach the original; the claim fails on
\* the copy itself.  Stated for arrays whose block has room for capacity
\* elements.)
C15_CloneCopiesLive ==
    (mem = "ok" /\ dyn.alloc >= dyn.cap * dyn.esize) =>
        LET r == dyn_clone(dyn)
        IN  /\ ~r.oob
            /\ r.self.len = dyn.len /\ r.self.cap = dyn.cap
            /\ \A i \in 0..(dyn.len - 1) :
                   dyn_at(r.self, i) = dres(r.self, TRUE, load(dyn, i), FALSE)

\* C16: length <= capacity after every sequence of calls, for every starting
\* capacity, 0 and 1 included.
C16_LenWithinCap == dyn.len <= dyn.cap

\* C17: while no call has gone outside the block, an out-of-range access is
\* reported and changes nothing: for index >= length dyn_at and dyn_remove give
\* ok=false and dyn_replace gives ERR_INDEX_OUT_OF_BOUNDS, dyn_pop on an empty
\* array gives ok=false, and the struct and its elements are as before; for
\* index < length dyn_replace gives ERR_NONE and changes the element at index
\* and nothing else.
C17_OutOfRangeReported ==
    mem = "ok" =>
        /\ \A index \in Indices : index >= dyn.len =>
               /\ dyn_at(dyn, index) = dres(dyn, FALSE, 0, FALSE)
               /\ dyn_remove(dyn, index) = dres(dyn, FALSE, 0, FALSE)
               /\ \A elem \in Elems :
                      dyn_replace(dyn, index, elem) = dres(dyn, FALSE, 0, FALSE)
        /\ dyn.len = 0 => dyn_pop(dyn) = dres(dyn, FALSE, 0, FALSE)
        /\ \A index \in 0..(dyn.len - 1), elem \in Elems :
               /\ InBlock(dyn, index)
               /\ dyn_replace(dyn, index, elem)
                      = dres([dyn EXCEPT !.buf[index + 1] = elem], TRUE, 0, FALSE)

\* an array that an out-of-range dyn_replace or dyn_remove, or an in-range
\* dyn_replace, has been called on and that holds what it should
C17_Witness ==
    /\ mem = "ok" /\ hist.phase = "mixed"
    /\ dyn.len >= 2 /\ dyn.len = Len(hist.abs)
    /\ Live(dyn) = hist.abs
    /\ clone = <<>>

(***************************************************************************)
(* The string: struct { dyn_char buf; }, a dynamic array of char kept      *)
(* null-terminated.  A char is a number, 0 is the terminator.  A C string  *)
(* argument is the sequence of its chars before the terminator.            *)
(***************************************************************************)
MaxCStr == 2

\* any chars but the terminator; the code copies and compares them
Chars == {1, 2}

RECURSIVE SeqsUpTo(_, _)
SeqsUpTo(S, n) ==
    IF n = 0 THEN {<<>>}
    ELSE LET shorter == SeqsUpTo(S, n - 1)
         IN  shorter \cup {Append(q, c) : q \in {t \in shorter : Len(t) = n - 1}, c \in S}

CStrs == SeqsUpTo(Chars, MaxCStr)

\* strlen
strlen(content) == Len(content)

\* string_init; sizeof(char) is 1
string_init == [buf |-> dyn_init(1)]

\* string_resize
string_resize(self) == [buf |-> dyn_resize(self.buf)]

\* a string function's result, as dres
sres(buf, ok, value, oob) == dres([buf |-> buf], ok, value, oob)

\* string_push_char
string_push_char(self, elem) ==
    LET one == dyn_push(self.buf, elem)
        two == dyn_push(one.self, 0)
    IN  sres([two.self EXCEPT !.len = size_sub(two.self.len, 1)],
             TRUE, 0, one.oob \/ two.oob)

\* string_push_cstr: if (self->buf.len + 1 >= self->buf.cap) string_resize(self);
grown(self) == IF size_add(self.buf.len, 1) >= self.buf.cap THEN string_resize(self) ELSE self

RECURSIVE push_cstr_loop(_, _, _, _)
\* string_push_cstr: for (size_t i = 0; i < strlen(content); i++)
push_cstr_loop(self, content, i, oob) ==
    IF i < strlen(content)
    THEN LET r == string_push_char(grown(self), content[i + 1])
         IN  push_cstr_loop(r.self, content, i + 1, oob \/ r.oob)
    ELSE dres(self, TRUE, 0, oob)

\* string_push_cstr
string_push_cstr(self, content) ==
    LET l == push_cstr_loop(self, content, 0, FALSE)
        r == string_push_char(grown(l.self), 0)
    IN  sres([r.self.buf EXCEPT !.len = size_sub(r.self.buf.len, 1)],
             TRUE, 0, l.oob \/ r.oob)

\* string_from
string_from(content) == string_push_cstr(string_init, content)

\* self->buf.buf[self->buf.len] = 0, after the dyn call that gave r
terminated(r) ==
    sres(store(r.self, r.self.len, 0), r.ok, r.value,
         r.oob \/ ~InBlock(r.self, r.self.len))

\* string_pop
string_pop(self) == terminated(dyn_pop(self.buf))

\* string_remove
string_remove(self, index) == terminated(dyn_remove(self.buf, index))

\* string_replace
string_replace(self, index, elem) ==
    LET r == dyn_replace(self.buf, index, elem)
    IN  sres(r.self, r.ok, r.value, r.oob)

\* string_clear
string_clear(self) ==
    LET r == dyn_clear(self.buf)
    IN  sres(r.self, r.ok, r.value, r.oob)

RECURSIVE cstr_read(_, _)
\* what a reader of the C string at buf finds from index i on: the chars
\* before the first 0; ok is FALSE if it meets an indeterminate byte or the
\* end of the block first
cstr_read(buf, i) ==
    IF ~InBlock(buf, i) \/ load(buf, i) = Undef THEN [chars |-> <<>>, ok |-> FALSE]
    ELSE IF load(buf, i) = 0 THEN [chars |-> <<>>, ok |-> TRUE]
    ELSE LET rest == cstr_read(buf, i + 1)
         IN  [chars |-> <<load(buf, i)>> \o rest.chars, ok |-> rest.ok]

\* string_get, read as a C string
string_get(self) == cstr_read(self.buf, 0)

(***************************************************************************)
(* A program that works on one string, made by string_init or by           *)
(* string_from.  mem is as for the dynamic array.                          *)
(***************************************************************************)
InitStr ==
    /\ MapIdle
    /\ dyn = "idle" /\ clone = "idle" /\ hist = "idle" /\ io = "idle"
    /\ str \in {string_init} \cup {string_from(content).self : content \in CStrs}
    /\ mem = "ok"

\* the call that gave r has been made on str
StrDone(r) ==
    IF r.oob
    THEN \E m \in OobOutcomes :
             /\ mem' = m
             /\ str' = IF m = "segv" THEN str ELSE r.self
    ELSE mem' = mem /\ str' = r.self

StringPushChar(elem) ==
    /\ Running /\ str.buf.len < MaxLen
    /\ StrDone(string_push_char(str, elem))
    /\ UNCHANGED <<dyn, clone, hist, io, vars>>

StringPushCstr(content) ==
    /\ Running /\ str.buf.len + strlen(content) <= MaxLen
    /\ StrDone(string_push_cstr(str, content))
    /\ UNCHANGED <<dyn, clone, hist, io, vars>>

StringPop ==
    /\ Running
    /\ StrDone(string_pop(str))
    /\ UNCHANGED <<dyn, clone, hist, io, vars>>

StringRemove(index) ==
    /\ Running
    /\ StrDone(string_remove(str, index))
    /\ UNCHANGED <<dyn, clone, hist, io, vars>>

StringReplace(index, elem) ==
    /\ Running
    /\ StrDone(string_replace(str, index, elem))
    /\ UNCHANGED <<dyn, clone, hist, io, vars>>

StringClear ==
    /\ Running
    /\ StrDone(string_clear(str))
    /\ UNCHANGED <<dyn, clone, hist, io, vars>>

NextStr ==
    \/ \E elem \in Chars : StringPushChar(elem)
    \/ \E content \in CStrs : StringPushCstr(content)
    \/ StringPop
    \/ \E index \in Indices : StringRemove(index)
    \/ \E index \in Indices, elem \in Chars : StringReplace(index, elem)
    \/ StringClear

SpecStr == InitStr /\ [][NextStr]_<<vars, others>>

\* C18: a string is null-terminated right after its live chars after every
\* sequence of calls: while no call has gone outside the block, reading
\* string_get(str) as a C string gives exactly the buf.len live chars (none
\* after string_clear).
C18_NullTerminated ==
    mem = "ok" => string_get(str) = [chars |-> Live(str.buf), ok |-> TRUE]

(***************************************************************************)
(* A program that makes a string with string_from, pushes chars on it and  *)
(* calls string_contains_cstr once, with a non-empty pattern.  io is <<>>  *)
(* before that call and <<c>> after it, c the arguments and the tuple      *)
(* returned.                                                               *)
(***************************************************************************)
\* content[i] of a C string, the terminator included
cstr_at(content, i) == IF i < strlen(content) THEN content[i + 1] ELSE 0

\* tuple_bool_size_t
tuple_bool_size_t(found, index) == [found |-> found, index |-> index]

RECURSIVE contains_loop(_, _, _, _, _)
\* string_contains_cstr: for (size_t i = 0; i < self.buf.len; i++)
contains_loop(self, pattern, i, head, index) ==
    IF i < self.buf.len
    THEN IF head = strlen(pattern) THEN tuple_bool_size_t(TRUE, index)
         ELSE IF load(self.buf, i) = cstr_at(pattern, head)
              THEN contains_loop(self, pattern, i + 1, head + 1, index)
              ELSE contains_loop(self, pattern, i + 1, 0, IF i = 0 THEN 1 ELSE i)
    ELSE IF head = strlen(pattern) THEN tuple_bool_size_t(TRUE, index)
         ELSE tuple_bool_size_t(FALSE, 0)

\* string_contains_cstr
string_contains_cstr(self, pattern) ==
    IF self.buf.len < strlen(pattern) THEN tuple_bool_size_t(FALSE, 0)
    ELSE contains_loop(self, pattern, 0, 0, 0)

Patterns == CStrs \ {<<>>}

InitContains ==
    /\ MapIdle
    /\ dyn = "idle" /\ clone = "idle" /\ hist = "idle"
    /\ str \in {string_from(content).self : content \in CStrs}
    /\ mem = "ok"
    /\ io = <<>>

StringContainsCstr(pattern) ==
    /\ io = <<>>
    /\ io' = <<[self |-> str, pattern |-> pattern,
                result |-> string_contains_cstr(str, pattern)]>>
    /\ UNCHANGED <<dyn, clone, mem, hist, str, vars>>

NextContains ==
    \/ \E elem \in Chars : StringPushChar(elem)
    \/ \E pattern \in Patterns : StringContainsCstr(pattern)

SpecContains == InitContains /\ [][NextContains]_<<vars, others>>

\* pattern p occurs in s at index i (from 0)
Occurs(s, p, i) == i + Len(p) <= Len(s) /\ SubSeq(s, i + 1, i + Len(p)) = p

\* C19: string_contains_cstr(s, p) with p not empty gives {true, i} with an
\* occurrence of p starting at index i of s if p occurs in s, and {false, 0}
\* if it does not.
C19_ContainsFindsOccurrence ==
    io # <<>> =>
        LET s == Live(io[1].self.buf)
            p == io[1].pattern
            r == io[1].result
        IN  IF \E i \in 0..Len(s) : Occurs(s, p, i)
            THEN r.found /\ Occurs(s, p, r.index)
            ELSE r = tuple_bool_size_t(FALSE, 0)

(***************************************************************************)
(* hash_djb2, called once on a C string of bytes.  Whether char is signed  *)
(* is the build's choice.  io holds the bytes of the argument before its   *)
(* terminator, the build's choice, and in result <<>> before the call and  *)
(* <<h>> after it, h the value returned.                                   *)
(***************************************************************************)
MaxHashLen == 2

\* sample bytes on both sides of 127
Bytes == {1, 65, 127, 128, 200, 255}

\* the value of a char that holds byte b
char_value(b, char_signed) == IF char_signed /\ b >= 128 THEN b - 256 ELSE b

\* conversion of an int to size_t
to_size_t(n) == ((n % SizeMod) + SizeMod) % SizeMod

\* hash << n
shl(hash, n) == (hash * 2 ^ n) % SizeMod

RECURSIVE djb2_loop(_, _, _, _)
\* hash_djb2: for (size_t i = 0; i < strlen(str); i++)
djb2_loop(bytes, char_signed, i, hash) ==
    IF i < strlen(bytes) /\ cstr_at(bytes, i) # 0
    THEN djb2_loop(bytes, char_signed, i + 1,
                   size_add(size_add(shl(hash, 5), hash),
                            to_size_t(char_value(cstr_at(bytes, i), char_signed))))
    ELSE hash

\* hash_djb2
hash_djb2(bytes, char_signed) == djb2_loop(bytes, char_signed, 0, 5381 % SizeMod)

InitHash ==
    /\ MapIdle
    /\ dyn = "idle" /\ clone = "idle" /\ mem = "idle" /\ hist = "idle" /\ str = "idle"
    /\ io \in {[bytes |-> bytes, char_signed |-> char_signed, result |-> <<>>] :
                   bytes \in SeqsUpTo(Bytes, MaxHashLen), char_signed \in BOOLEAN}

HashDjb2 ==
    /\ io.result = <<>>
    /\ io' = [io EXCEPT !.result = <<hash_djb2(io.bytes, io.char_signed)>>]
    /\ UNCHANGED <<dyn, clone, mem, hist, str, vars>>

NextHash == HashDjb2

SpecHash == InitHash /\ [][NextHash]_<<vars, others>>

RECURSIVE Djb2(_, _)
\* 5381, then h * 33 + byte for each of the first n bytes, modulo 2^w
Djb2(bytes, n) ==
    IF n = 0 THEN 5381 % SizeMod
    ELSE (Djb2(bytes, n - 1) * 33 + bytes[n]) % SizeMod

\* C20: hash_djb2 gives 5381 followed by h = h * 33 + byte for each byte of
\* the input in order, modulo 2^w, byte being the unsigned value 0..255.
C20_HashIsDjb2 ==
    io.result # <<>> => io.result[1] = Djb2(io.bytes, Len(io.bytes))

(***************************************************************************)
(* The table against the dictionary kept beside it.  dict[k] is the value  *)
(* of the last successful map_insert or map_update of k, and 0 when k was  *)
(* never inserted or its last successful call was a map_remove.            *)
(***************************************************************************)
\* C21: after any sequence of map_insert, map_update and map_remove,
\* map_get(k) gives ok=true only for a key the dictionary holds, and then
\* with the dictionary's value: a removed key is not found again, with its
\* old value, unless it was inserted again.
C21_GetAgreesWithDictionary ==
    status = "ok" =>
        \A k \in Keys :
            LET r == map_get(map, k)
            IN  Succeeded(r) => dict[k] # 0 /\ r.value.value = dict[k]

(***************************************************************************)
(* The indices a call on a dynamic array uses on buf, as size_t values.    *)
(***************************************************************************)
\* dyn_at: self->buf[index], behind the bounds check
dyn_at_indices(self, index) == IF index >= self.len THEN {} ELSE {index}

\* dyn_push: self->buf[self->len] = elem
dyn_push_indices(self) == {self.len}

\* dyn_pop: dyn_at(self, self->len - 1)
dyn_pop_indices(self) == dyn_at_indices(self, size_sub(self.len, 1))

\* dyn_remove: dyn_at(self, index), then buf[index - 1] = buf[index] for
\* every index from the argument on with index + 1 < len
dyn_remove_indices(self, index) ==
    IF index >= self.len THEN {}
    ELSE {index} \cup UNION {{size_sub(j, 1), j} : j \in index..(self.len - 2)}

\* dyn_replace: self->buf[index] = elem, behind the bounds check
dyn_replace_indices(self, index) == IF index >= self.len THEN {} ELSE {index}

\* every index of I is in [0, cap)
WithinCap(I, cap) == I \subseteq 0..(cap - 1)

\* C22: no call of dyn_push, dyn_pop, dyn_at, dyn_remove or dyn_replace uses
\* an index outside [0, capacity) or touches an element outside the block,
\* dyn_remove with index 0 on an array of length >= 2 included.  (Stated for
\* capacities of at least 1 and while no earlier call has gone outside the
\* block.)
C22_AccessesWithinCapacity ==
    (mem = "ok" /\ dyn.cap >= 1) =>
        /\ \A elem \in Elems :
               LET r == dyn_push(dyn, elem)
               IN  WithinCap(dyn_push_indices(dyn), r.self.cap) /\ ~r.oob
        /\ WithinCap(dyn_pop_indices(dyn), dyn.cap) /\ ~dyn_pop(dyn).oob
        /\ \A index \in Indices :
               /\ WithinCap(dyn_at_indices(dyn, index), dyn.cap)
               /\ ~dyn_at(dyn, index).oob
               /\ WithinCap(dyn_remove_indices(dyn, index), dyn.cap)
               /\ ~dyn_remove(dyn, index).oob
               /\ WithinCap(dyn_replace_indices(dyn, index), dyn.cap)
               /\ \A elem \in Elems : ~dyn_replace(dyn, index, elem).oob

====
